---- MODULE Spec2Model ----
(***************************************************************************)
(* Model of the sudoku solving core: the grid geometry of the three        *)
(* variants (StandardSudoku, MiniSudoku, HyperSudoku), the derived         *)
(* predicates of the Sudoku trait (filled, legal, solved) and the          *)
(* recursive search `backtrack` behind Sudoku::solve.                      *)
(*                                                                         *)
(* A Cell (Option<u8>) is an integer: None is -1 and Some(v) is v, so that *)
(* the integer order is the derived order of Option (None < Some(_)).      *)
(* A grid is a function from the cell indices 0..n-1 to Cells.  A group is *)
(* modelled twice: as the sequence of the cell indices the code reads      *)
(* (the *Idx definitions) and as the Vec<Cell> of the values found there.  *)
(***************************************************************************)
EXTENDS Integers, Sequences, FiniteSets, TLC

VARIABLES variant, cells, pc, stack, ret, input, written, results, calls, sets, setArgs,
          text, parsed

vars == <<variant, cells, pc, stack, ret, input, written, results, calls, sets, setArgs,
          text, parsed>>

None == -1

Variants == {"Standard", "Mini", "Hyper"}

\* Result::Ok
Ok == "Ok"

(* ---------------- bounds of the model ---------------- *)

\* most cells emptied in the parsed puzzle
MaxHoles == 3
\* most calls of set() by the owner of the grid
MaxSets == 1
\* most calls of solve() on one grid
MaxCalls == 2

(* ---------------- iterator adaptors used by the geometry ---------------- *)

\* 0, 1, .., n-1 as a sequence: the positions of an array of n cells
Indices(n) == [k \in 1..n |-> k - 1]

Min(a, b) == IF a < b THEN a ELSE b

\* Iterator::skip
Skip(s, n) == IF n >= Len(s) THEN <<>> ELSE SubSeq(s, n + 1, Len(s))

\* Iterator::take
Take(s, n) == SubSeq(s, 1, Min(n, Len(s)))

\* Iterator::step_by: the first element, then every k-th
StepBy(s, k) == [j \in 1..((Len(s) + k - 1) \div k) |-> s[(j - 1) * k + 1]]

\* slice::chunks_exact: the full chunks of k elements, the remainder dropped
ChunksExact(s, k) == [j \in 1..(Len(s) \div k) |-> SubSeq(s, (j - 1) * k + 1, j * k)]

\* Iterator::flatten
RECURSIVE Flatten(_)
Flatten(ss) == IF ss = <<>> THEN <<>> ELSE Head(ss) \o Flatten(Tail(ss))

\* the range a..b-1 as a sequence
Range(a, b) == [k \in 1..(b - a) |-> a + k - 1]

\* the set of the elements of a sequence
Elems(s) == {s[k] : k \in 1..Len(s)}

(* ---------------- StandardSudoku: 9x9, values 1..9 ---------------- *)

StandardCells == Indices(9 * 9)

\* StandardSudoku::grid that skips 3 chunks for a row of subgrids, not 9
StandardGridShortSkip(i) ==
    LET row == i \div 3
        col == i % 3
    IN  Flatten(Take(StepBy(Skip(ChunksExact(StandardCells, 3), row * 3 + col), 3), 3))

\* StandardSudoku::grid: the cell indices of subgrid i
StandardGrid(i) ==
    LET row == i \div 3
        col == i % 3
    IN  Flatten(Take(StepBy(Skip(ChunksExact(StandardCells, 3), row * 9 + col), 3), 3))

StandardRows == ChunksExact(StandardCells, 9)

StandardColumns == [c \in 1..9 |-> StepBy(Skip(StandardCells, c - 1), 9)]

StandardGrids == [i \in 1..9 |-> StandardGrid(i - 1)]

StandardGroupsOf(i) ==
    LET row == i \div 9
        col == i % 9
        group == (row \div 3) * 3 + (col \div 3)
    IN  << Take(Skip(StandardCells, row * 9), 9),
           StepBy(Skip(StandardCells, col), 9),
           StandardGrid(group) >>

(* ---------------- MiniSudoku: 6x6, values 1..6 ---------------- *)

MiniCells == Indices(6 * 6)

MiniRow(i) == Take(Skip(MiniCells, i * 6), 6)

MiniColumn(i) == StepBy(Skip(MiniCells, i), 6)

\* MiniSudoku::grid: the cell indices of subgrid i
MiniGrid(i) ==
    LET row == i \div 2
        col == i % 2
    IN  Flatten(Take(StepBy(Skip(Skip(ChunksExact(MiniCells, 3), row * 4), col), 2), 2))

MiniRows == [i \in 1..6 |-> MiniRow(i - 1)]

MiniColumns == [i \in 1..6 |-> MiniColumn(i - 1)]

MiniGrids == [i \in 1..6 |-> MiniGrid(i - 1)]

\* MiniSudoku::groups_of with the subgrid number taken as on the 9x9 grids
MiniGroupsOfThirds(i) ==
    LET row == i \div 6
        col == i % 6
        group == (row \div 3) * 3 + (col \div 3)
    IN  << MiniRow(row), MiniColumn(col), MiniGrid(group) >>

MiniGroupsOf(i) ==
    LET row == i \div 6
        col == i % 6
        group == (row \div 2) * 2 + (col \div 3)
    IN  << MiniRow(row), MiniColumn(col), MiniGrid(group) >>

(* ---------------- HyperSudoku: 9x9 with four extra regions ---------------- *)

HyperCells == Indices(9 * 9)

\* HyperSudoku::grid with the last extra region one column to the left
HyperGridShifted(i) ==
    LET row == i \div 3
        col == i % 3
        offset == CASE i \in 0..8 -> (row * 9 * 3) + col * 3
                    [] i = 9  -> 9 + 1
                    [] i = 10 -> 9 + 5
                    [] i = 11 -> 9 * 5 + 1
                    [] i = 12 -> 9 * 5 + 4
    IN  Range(offset, offset + 3) \o Range(offset + 9, offset + 9 + 3)
            \o Range(offset + 18, offset + 18 + 3)

\* HyperSudoku::grid: subgrids 0..8 are the boxes, 9..12 the extra regions
HyperGrid(i) ==
    LET row == i \div 3
        col == i % 3
        offset == CASE i \in 0..8 -> (row * 9 * 3) + col * 3
                    [] i = 9  -> 9 + 1
                    [] i = 10 -> 9 + 5
                    [] i = 11 -> 9 * 5 + 1
                    [] i = 12 -> 9 * 5 + 5
    IN  Range(offset, offset + 3) \o Range(offset + 9, offset + 9 + 3)
            \o Range(offset + 18, offset + 18 + 3)

HyperRows == ChunksExact(HyperCells, 9)

HyperColumns == [i \in 1..9 |-> StepBy(Skip(HyperCells, i - 1), 9)]

HyperGrids == [i \in 1..13 |-> HyperGrid(i - 1)]

\* HyperSudoku::groups_of with the column band 5..=7 written 4..=7
HyperGroupsOfWideBand(i) ==
    LET row == i \div 9
        col == i % 9
        group == (row \div 3) * 3 + (col \div 3)
        v == << Take(Skip(HyperCells, row * 9), 9),
                StepBy(Skip(HyperCells, col), 9),
                HyperGrid(group) >>
    IN  CASE row \in 1..3 /\ col \in 1..3 -> Append(v, HyperGrid(9))
          [] row \in 1..3 /\ col \in 4..7 -> Append(v, HyperGrid(10))
          [] row \in 5..7 /\ col \in 1..3 -> Append(v, HyperGrid(11))
          [] row \in 5..7 /\ col \in 4..7 -> Append(v, HyperGrid(12))
          [] OTHER -> v

HyperGroupsOf(i) ==
    LET row == i \div 9
        col == i % 9
        group == (row \div 3) * 3 + (col \div 3)
        v == << Take(Skip(HyperCells, row * 9), 9),
                StepBy(Skip(HyperCells, col), 9),
                HyperGrid(group) >>
    IN  CASE row \in 1..3 /\ col \in 1..3 -> Append(v, HyperGrid(9))
          [] row \in 1..3 /\ col \in 5..7 -> Append(v, HyperGrid(10))
          [] row \in 5..7 /\ col \in 1..3 -> Append(v, HyperGrid(11))
          [] row \in 5..7 /\ col \in 5..7 -> Append(v, HyperGrid(12))
          [] OTHER -> v

(* ---------------- the Sudoku trait, by variant ---------------- *)

\* the length of the cells array
NumCells(v) == IF v = "Mini" THEN 6 * 6 ELSE 9 * 9

\* new(): every cell None
New(v) == [i \in 0..(NumCells(v) - 1) |-> None]

\* cell_values as a range that leaves out its upper end
CellValuesExclusive(v) == IF v = "Mini" THEN 1..5 ELSE 1..8

\* Sudoku::cell_values
CellValues(v) == IF v = "Mini" THEN 1..6 ELSE 1..9

RowsIdx(v) ==
    CASE v = "Standard" -> StandardRows [] v = "Mini" -> MiniRows [] v = "Hyper" -> HyperRows

ColumnsIdx(v) ==
    CASE v = "Standard" -> StandardColumns [] v = "Mini" -> MiniColumns
      [] v = "Hyper" -> HyperColumns

GridsIdx(v) ==
    CASE v = "Standard" -> StandardGrids [] v = "Mini" -> MiniGrids [] v = "Hyper" -> HyperGrids

\* the per-cell groups, tabulated over the cell indices
StandardGroupsOfTable == [i \in 0..80 |-> StandardGroupsOf(i)]

MiniGroupsOfTable == [i \in 0..35 |-> MiniGroupsOf(i)]

HyperGroupsOfTable == [i \in 0..80 |-> HyperGroupsOf(i)]

GroupsOfIdx(v, i) ==
    CASE v = "Standard" -> StandardGroupsOfTable[i]
      [] v = "Mini" -> MiniGroupsOfTable[i]
      [] v = "Hyper" -> HyperGroupsOfTable[i]

\* Sudoku::groups without the subgrids
GroupsWithoutGrids(v) == RowsIdx(v) \o ColumnsIdx(v)

\* Sudoku::groups: rows, then columns, then subgrids
GroupsIdx(v) == RowsIdx(v) \o ColumnsIdx(v) \o GridsIdx(v)

\* the Vec<Cell> a group of cell indices yields on grid c
View(c, idx) == [k \in 1..Len(idx) |-> c[idx[k]]]

\* Sudoku::groups_of on grid c
GroupsOf(v, c, i) == [k \in 1..Len(GroupsOfIdx(v, i)) |-> View(c, GroupsOfIdx(v, i)[k])]

\* a Vec<Cell> left in the order of the cells
Unsorted(group) == group

\* slice::sort on a Vec<Cell>: ascending, None first
Sort(group) == SortSeq(group, LAMBDA a, b : a < b)

\* Sudoku::filled
Filled(c) == \A i \in DOMAIN c : c[i] # None

\* legal() without the exemption of None
LegalNoneClashes(v, c) ==
    LET groups == GroupsIdx(v)
    IN  \A k \in 1..Len(groups) :
            LET group == Sort(View(c, groups[k]))
            IN  \A w \in 1..(Len(group) - 1) : group[w] # group[w + 1]

\* Sudoku::legal: in every sorted group, equal neighbours are both None.
\* (groups and group are bound over one-element sets: each is computed once.)
Legal(v, c) ==
    \A groups \in {GroupsIdx(v)} :
        \A k \in 1..Len(groups) :
            \A group \in {Sort(View(c, groups[k]))} :
                \A w \in 1..(Len(group) - 1) : group[w] # group[w + 1] \/ group[w] = None

\* solved() without the look at the first cell of the sorted group
SolvedNoneAllowed(v, c) ==
    LET groups == GroupsIdx(v)
    IN  \A k \in 1..Len(groups) :
            LET group == Sort(View(c, groups[k]))
            IN  \A w \in 1..(Len(group) - 1) : group[w] # group[w + 1]

\* Sudoku::solved: in every sorted group, no None in front and no equal neighbours
Solved(v, c) ==
    LET groups == GroupsIdx(v)
    IN  \A k \in 1..Len(groups) :
            LET group == Sort(View(c, groups[k]))
            IN  group[1] # None /\ \A w \in 1..(Len(group) - 1) : group[w] # group[w + 1]

\* get(pos).is_some() taken to be false
HoldsValueNever(c, pos) == FALSE

\* suduko.get(pos).is_some()
HoldsValue(c, pos) == c[pos] # None

(* ---------------- Display and FromStr ---------------- *)

\* a char is its code point: ' ', '0' and '\n'
Space == 32

Zero == 48

Newline == 10

ErrLength == "invalid length"

\* Display::fmt with '0' written for an empty cell
DisplayZeroForNone(v, c) ==
    [k \in 1..NumCells(v) |-> IF c[k - 1] = None THEN Zero ELSE Zero + c[k - 1]]

\* Display::fmt: one char per cell, ('0' as u8 + digit) as char or ' '
Display(v, c) ==
    [k \in 1..NumCells(v) |-> IF c[k - 1] = None THEN Space ELSE Zero + c[k - 1]]

\* char::to_digit(10) as a Cell: Some(d) for '0'..'9', None for any other char
ToDigit(ch) == IF ch \in Zero..(Zero + 9) THEN ch - Zero ELSE None

\* the first arm of the match of from_str with the digits '0'..='9'
SignificantWithZero(v, ch) == ch \in Zero..(Zero + 9) \/ ch = Space

\* the first arm of the match of from_str: '1'..='9' | ' ', in Mini '1'..='6' | ' '
Significant(v, ch) ==
    \/ ch \in (Zero + 1)..(Zero + (IF v = "Mini" THEN 6 ELSE 9))
    \/ ch = Space

\* s.chars().filter_map(..).collect::<Vec<Cell>>()
RECURSIVE FilterMap(_, _)
FilterMap(v, s) ==
    IF s = <<>> THEN <<>>
    ELSE (IF Significant(v, Head(s)) THEN << ToDigit(Head(s)) >> ELSE <<>>)
             \o FilterMap(v, Tail(s))

\* FromStr::from_str: Err("invalid length") unless the Vec has one Cell per cell
FromStr(v, s) ==
    LET vec == FilterMap(v, s)
    IN  IF Len(vec) # NumCells(v)
        THEN [result |-> ErrLength, grid |-> <<>>]
        ELSE [result |-> Ok, grid |-> [i \in 0..(NumCells(v) - 1) |-> vec[i + 1]]]

(* ---------------- the grids the runs start from ---------------- *)

\* the solved grid of tests::validation (sudoku.rs), row by row
StandardPuzzle ==
    << 8, 2, 7, 1, 5, 4, 3, 9, 6,
       9, 6, 5, 3, 2, 7, 1, 4, 8,
       3, 4, 1, 6, 8, 9, 7, 5, 2,
       5, 9, 3, 4, 6, 8, 2, 7, 1,
       4, 7, 2, 5, 1, 3, 6, 8, 9,
       6, 1, 8, 9, 7, 2, 4, 3, 5,
       7, 8, 6, 2, 3, 5, 9, 1, 4,
       1, 5, 4, 7, 9, 6, 8, 2, 3,
       2, 3, 9, 8, 4, 1, 5, 6, 7 >>

\* the solution of the puzzle of tests::groups (mini.rs), row by row
MiniPuzzle ==
    << 3, 1, 5, 2, 6, 4,
       2, 6, 4, 5, 3, 1,
       1, 2, 3, 6, 4, 5,
       4, 5, 6, 1, 2, 3,
       5, 4, 2, 3, 1, 6,
       6, 3, 1, 4, 5, 2 >>

\* the solution of the puzzle of tests::groups (hyper.rs), row by row
HyperPuzzle ==
    << 9, 4, 6, 8, 3, 2, 7, 1, 5,
       1, 5, 2, 6, 9, 7, 8, 3, 4,
       7, 3, 8, 4, 5, 1, 2, 9, 6,
       8, 1, 9, 7, 2, 6, 5, 4, 3,
       4, 7, 5, 3, 1, 9, 6, 8, 2,
       2, 6, 3, 5, 4, 8, 1, 7, 9,
       3, 2, 7, 9, 8, 5, 4, 6, 1,
       5, 8, 4, 1, 6, 3, 9, 2, 7,
       6, 9, 1, 2, 7, 4, 3, 5, 8 >>

Puzzle(v) ==
    CASE v = "Standard" -> StandardPuzzle [] v = "Mini" -> MiniPuzzle [] v = "Hyper" -> HyperPuzzle

\* the cells a parsed puzzle may leave empty
HolePositions(v) ==
    CASE v = "Standard" -> {30, 48, 49, 66, 67}
      [] v = "Mini" -> {7, 25, 27, 31, 33}
      [] v = "Hyper" -> {27, 34, 36, 43, 64}

\* the cells the owner of the grid calls set() on
EditPositions(v) ==
    CASE v = "Standard" -> {48, 67}
      [] v = "Mini" -> {7, 33}
      [] v = "Hyper" -> {28, 36}

\* the values the owner passes to set(): None, Some(0), two values of the
\* range, and the first value past the range
EditValues(v) ==
    CASE v = "Standard" -> {None, 0, 7, 8, 10}
      [] v = "Mini" -> {None, 0, 3, 5, 7}
      [] v = "Hyper" -> {None, 0, 5, 8, 10}

\* the text of Puzzle(v) with the cells of holes blanked
PuzzleText(v, holes) ==
    [k \in 1..NumCells(v) |-> IF (k - 1) \in holes THEN Space ELSE Zero + Puzzle(v)[k]]

\* FromStr::from_str(..).unwrap() of that text
Parsed(v, holes) == FromStr(v, PuzzleText(v, holes)).grid

\* the ways a caller writes the text of a puzzle
Decorations == 1..7

\* text t as it is (1), with a newline after every row (2), with 'x' in
\* front (3), with '0' for its first char (4), with '7' for its first char (5),
\* with a '1' more at the end (6), and without its last char (7)
Decorate(v, t, d) ==
    CASE d = 1 -> t
      [] d = 2 -> LET w == IF v = "Mini" THEN 6 ELSE 9
                  IN  Flatten([r \in 1..w |-> SubSeq(t, (r - 1) * w + 1, r * w)
                                                  \o << Newline >>])
      [] d = 3 -> << 120 >> \o t
      [] d = 4 -> << Zero >> \o Tail(t)
      [] d = 5 -> << Zero + 7 >> \o Tail(t)
      [] d = 6 -> Append(t, Zero + 1)
      [] d = 7 -> SubSeq(t, 1, Len(t) - 1)

\* the texts handed to from_str
InputTexts(v) ==
    {Decorate(v, PuzzleText(v, holes), d) :
        holes \in {h \in SUBSET HolePositions(v) : Cardinality(h) <= MaxHoles},
        d \in Decorations}

(* ---------------- the search ---------------- *)

ErrIllegal == "cannot solve illegal position"
ErrUnsolvable == "suduko cannot be solved"
NoResult == "none"

\* no call of set() since the grid was parsed or last solved
NoArgs == <<>>

\* no String at hand, and no result of from_str
NoText == [chars |-> <<>>, from |-> "none"]

NoParse == [result |-> "none", grid |-> <<>>]

\* a grid c recorded by the cells in which it differs from the grid solve()
\* was called on, and the grid such a record stands for
Snapshot(c) == [i \in {j \in DOMAIN c : c[j] # input[j]} |-> c[i]]

Restore(snap) == [i \in DOMAIN input |-> IF i \in DOMAIN snap THEN snap[i] ELSE input[i]]

\* the activation record of one call of backtrack: its argument pos, the
\* place it is at, the candidates its loop has still to try, and (for the
\* properties) the grid as it was when the call started
Frame(pos, c) == [pos |-> pos, at |-> "entry", possible |-> <<>>, entry |-> Snapshot(c)]

Top == stack[Len(stack)]

Pop == SubSeq(stack, 1, Len(stack) - 1)

ReplaceTop(f) == [stack EXCEPT ![Len(stack)] = f]

\* the excluded values taken from the row and the column of the cell only
IllegalValuesRowColumn(v, c, pos) ==
    LET groups == GroupsOf(v, c, pos)
    IN  UNION {Elems(groups[k]) : k \in 1..2}

\* FxHashSet::from_iter(groups_of(pos).into_iter().flatten())
IllegalValues(v, c, pos) ==
    LET groups == GroupsOf(v, c, pos)
    IN  UNION {Elems(groups[k]) : k \in 1..Len(groups)}

\* the values lo..=hi in decreasing order without those of the set illegal
RECURSIVE FilterDescending(_, _, _)
FilterDescending(lo, hi, illegal) ==
    IF lo > hi THEN <<>>
    ELSE (IF hi \in illegal THEN <<>> ELSE <<hi>>) \o FilterDescending(lo, hi - 1, illegal)

\* the values lo..=hi in increasing order without those of the set illegal
RECURSIVE Filter(_, _, _)
Filter(lo, hi, illegal) ==
    IF lo > hi THEN <<>>
    ELSE (IF lo \in illegal THEN <<>> ELSE <<lo>>) \o Filter(lo + 1, hi, illegal)

\* cell_values().filter(|&value| !illegal.contains(&Some(value)))
Possible(v, c, pos) ==
    LET values == CellValues(v)
        lo == CHOOSE x \in values : \A y \in values : x <= y
        hi == CHOOSE x \in values : \A y \in values : x >= y
    IN  Filter(lo, hi, IllegalValues(v, c, pos))

Init ==
    /\ variant \in Variants
    /\ \E holes \in SUBSET HolePositions(variant) :
          /\ Cardinality(holes) <= MaxHoles
          /\ cells = Parsed(variant, holes)
    /\ pc = "idle"
    /\ stack = <<>>
    /\ ret = NoResult
    /\ input = cells
    /\ written = {}
    /\ results = <<>>
    /\ calls = 0
    /\ sets = 0
    /\ setArgs = NoArgs
    /\ text = NoText
    /\ parsed = NoParse

\* Sudoku::set with a value of the range, or None
SetCell(i, num) ==
    /\ pc = "idle"
    /\ sets < MaxSets
    /\ num = None \/ num \in CellValues(variant)
    /\ cells' = [cells EXCEPT ![i] = num]
    /\ sets' = sets + 1
    /\ setArgs' = [i |-> i, num |-> num]
    /\ UNCHANGED <<variant, pc, stack, ret, input, written, results, calls, text, parsed>>

\* set without the look at cell_values: the value is stored as it is
SetUnchecked(i, num) ==
    /\ pc = "idle"
    /\ sets < MaxSets
    /\ num # None /\ num \notin CellValues(variant)
    /\ cells' = [cells EXCEPT ![i] = num]
    /\ sets' = sets + 1
    /\ setArgs' = [i |-> i, num |-> num]
    /\ UNCHANGED <<variant, pc, stack, ret, input, written, results, calls, text, parsed>>

\* Sudoku::set with a value outside the range: panics
SetPanic(i, num) ==
    /\ pc = "idle"
    /\ sets < MaxSets
    /\ num # None /\ num \notin CellValues(variant)
    /\ pc' = "panicked"
    /\ sets' = sets + 1
    /\ setArgs' = [i |-> i, num |-> num]
    /\ UNCHANGED <<variant, cells, stack, ret, input, written, results, calls, text, parsed>>

\* Sudoku::solve: call backtrack(self, 0)
Solve ==
    /\ pc = "idle"
    /\ calls < MaxCalls
    /\ pc' = "solving"
    /\ calls' = calls + 1
    /\ input' = cells
    /\ written' = {}
    /\ ret' = NoResult
    /\ stack' = << [pos |-> 0, at |-> "entry", possible |-> <<>>, entry |-> <<>>] >>
    /\ setArgs' = NoArgs
    /\ UNCHANGED <<variant, cells, results, sets, text, parsed>>

\* backtrack, from its entry to the head of its loop: fail on an illegal
\* position, succeed past the last cell, go on to pos + 1 at a cell that holds
\* a value, and otherwise compute the candidates of the empty cell.
\* `return backtrack(suduko, pos + 1)` is a call in tail position: the call
\* for pos + 1 takes the place of this one and its result goes to this call's
\* caller.
Backtrack ==
    /\ pc = "solving" /\ stack # <<>> /\ Top.at = "entry"
    /\ IF ~Legal(variant, cells)
         THEN /\ stack' = Pop
              /\ ret' = ErrIllegal
         ELSE IF Top.pos >= NumCells(variant)
         THEN /\ stack' = Pop
              /\ ret' = Ok
         ELSE IF HoldsValue(cells, Top.pos)
         THEN /\ stack' = ReplaceTop(Frame(Top.pos + 1, cells))
              /\ ret' = NoResult
         ELSE /\ stack' = ReplaceTop([Top EXCEPT !.at = "loop",
                                                 !.possible = Possible(variant, cells, Top.pos)])
              /\ ret' = NoResult
    /\ UNCHANGED <<variant, cells, pc, input, written, results, calls, sets, setArgs, text, parsed>>

\* the loop of backtrack without the advance of its iterator
TryValueAgain ==
    /\ pc = "solving" /\ stack # <<>> /\ Top.at = "loop"
    /\ Top.possible # <<>>
    /\ LET value == Head(Top.possible)
           grid == [cells EXCEPT ![Top.pos] = value]
       IN  /\ cells' = grid
           /\ stack' = Append(ReplaceTop([Top EXCEPT !.at = "body"]), Frame(Top.pos + 1, grid))
    /\ written' = written \cup {Top.pos}
    /\ ret' = NoResult
    /\ UNCHANGED <<variant, pc, input, results, calls, sets, setArgs, text, parsed>>

\* backtrack: set the cell to the next candidate and call backtrack(pos + 1)
TryValue ==
    /\ pc = "solving" /\ stack # <<>> /\ Top.at = "loop"
    /\ Top.possible # <<>>
    /\ LET value == Head(Top.possible)
           grid == [cells EXCEPT ![Top.pos] = value]
       IN  /\ cells' = grid
           /\ stack' = Append(ReplaceTop([Top EXCEPT !.at = "body",
                                                     !.possible = Tail(Top.possible)]),
                              Frame(Top.pos + 1, grid))
    /\ written' = written \cup {Top.pos}
    /\ ret' = NoResult
    /\ UNCHANGED <<variant, pc, input, results, calls, sets, setArgs, text, parsed>>

\* backtrack: the call for the candidate succeeded
ReturnFound ==
    /\ pc = "solving" /\ stack # <<>> /\ Top.at = "body"
    /\ ret = Ok
    /\ stack' = Pop
    /\ UNCHANGED <<variant, cells, pc, ret, input, written, results, calls, sets, setArgs, text, parsed>>

\* backtrack: the call for the candidate failed, clear the cell and go on
NextValueRevert ==
    /\ pc = "solving" /\ stack # <<>> /\ Top.at = "body"
    /\ ret # Ok
    /\ cells' = [cells EXCEPT ![Top.pos] = None]
    /\ stack' = ReplaceTop([Top EXCEPT !.at = "loop"])
    /\ UNCHANGED <<variant, pc, ret, input, written, results, calls, sets, setArgs, text, parsed>>

\* backtrack: the call for the candidate failed, go on with the loop
NextValue ==
    /\ pc = "solving" /\ stack # <<>> /\ Top.at = "body"
    /\ ret # Ok
    /\ stack' = ReplaceTop([Top EXCEPT !.at = "loop"])
    /\ UNCHANGED <<variant, cells, pc, ret, input, written, results, calls, sets, setArgs, text, parsed>>

\* backtrack: no candidate left, fail and leave the cell as it is
ReturnUnsolvableKeep ==
    /\ pc = "solving" /\ stack # <<>> /\ Top.at = "loop"
    /\ Top.possible = <<>>
    /\ stack' = Pop
    /\ ret' = ErrUnsolvable
    /\ UNCHANGED <<variant, cells, pc, input, written, results, calls, sets, setArgs, text, parsed>>

\* backtrack: no candidate left, clear the cell and fail
ReturnUnsolvable ==
    /\ pc = "solving" /\ stack # <<>> /\ Top.at = "loop"
    /\ Top.possible = <<>>
    /\ cells' = [cells EXCEPT ![Top.pos] = None]
    /\ written' = written \cup {Top.pos}
    /\ stack' = Pop
    /\ ret' = ErrUnsolvable
    /\ UNCHANGED <<variant, pc, input, results, calls, sets, setArgs, text, parsed>>

\* Sudoku::solve returns what backtrack(self, 0) returned
SolveReturn ==
    /\ pc = "solving" /\ stack = <<>>
    /\ pc' = "idle"
    /\ results' = Append(results, [given |-> input, result |-> ret, grid |-> cells])
    /\ UNCHANGED <<variant, cells, stack, ret, input, written, calls, sets, setArgs, text, parsed>>

Next ==
    \/ \E i \in EditPositions(variant), num \in EditValues(variant) : SetCell(i, num)
    \/ \E i \in EditPositions(variant), num \in EditValues(variant) : SetPanic(i, num)
    \/ Solve
    \/ Backtrack
    \/ TryValue
    \/ ReturnFound
    \/ NextValue
    \/ ReturnUnsolvable
    \/ SolveReturn

Spec == Init /\ [][Next]_vars

\* a call of solve() runs on without a pause until it returns
SolveStep ==
    Backtrack \/ TryValue \/ ReturnFound \/ NextValue \/ ReturnUnsolvable \/ SolveReturn

\* the owner edits the grid it parsed, then calls solve() on it
NextLive ==
    \/ calls = 0 /\ \E i \in EditPositions(variant), num \in EditValues(variant) : SetCell(i, num)
    \/ calls = 0 /\ \E i \in EditPositions(variant), num \in EditValues(variant) : SetPanic(i, num)
    \/ Solve
    \/ SolveStep

SpecLive == Init /\ [][NextLive]_vars /\ WF_vars(SolveStep)

\* the owner only edits the grid: the grids the predicates are asked about
NextGrid ==
    \/ \E i \in EditPositions(variant), num \in EditValues(variant) : SetCell(i, num)
    \/ \E i \in EditPositions(variant), num \in EditValues(variant) : SetPanic(i, num)

SpecGrid == Init /\ [][NextGrid]_vars

(* ---------------- grids and their text ---------------- *)

\* a grid made by new()
InitText ==
    /\ variant \in Variants
    /\ cells = New(variant)
    /\ pc = "idle"
    /\ stack = <<>>
    /\ ret = NoResult
    /\ input = cells
    /\ written = {}
    /\ results = <<>>
    /\ calls = 0
    /\ sets = 0
    /\ setArgs = NoArgs
    /\ text = NoText
    /\ parsed = NoParse

\* from_str(t) on a text t of the caller; the caller goes on with the grid it
\* got, if it got one
ParseText ==
    /\ pc = "idle"
    /\ text.from = "none"
    /\ \E t \in InputTexts(variant) :
          /\ text' = [chars |-> t, from |-> "input"]
          /\ parsed' = FromStr(variant, t)
          /\ cells' = IF parsed'.result = Ok THEN parsed'.grid ELSE cells
    /\ UNCHANGED <<variant, pc, stack, ret, input, written, results, calls, sets, setArgs>>

\* to_string() of the grid
FormatGrid ==
    /\ pc = "idle"
    /\ text.from # "format"
    /\ text' = [chars |-> Display(variant, cells), from |-> "format"]
    /\ parsed' = NoParse
    /\ input' = cells
    /\ UNCHANGED <<variant, cells, pc, stack, ret, written, results, calls, sets, setArgs>>

\* from_str of the String to_string() gave
ParseFormatted ==
    /\ pc = "idle"
    /\ text.from = "format"
    /\ parsed = NoParse
    /\ parsed' = FromStr(variant, text.chars)
    /\ UNCHANGED <<variant, cells, pc, stack, ret, input, written, results, calls, sets,
                   setArgs, text>>

NextText ==
    \/ \E i \in EditPositions(variant), num \in EditValues(variant) : SetCell(i, num)
    \/ \E i \in EditPositions(variant), num \in EditValues(variant) : SetPanic(i, num)
    \/ ParseText
    \/ FormatGrid
    \/ ParseFormatted

SpecText == InitText /\ [][NextText]_vars

(* ---------------- the rules of the game, stated on cell positions ---------------- *)

Width(v) == IF v = "Mini" THEN 6 ELSE 9

\* the values of the game: 1..N on a grid N cells wide
ValueRange(v) == 1..Width(v)

RowOf(v, i) == i \div Width(v)

ColOf(v, i) == i % Width(v)

\* the box of a cell: 3 rows by 3 columns, in Mini 2 rows by 3 columns
BoxOf(v, i) ==
    IF v = "Mini" THEN << RowOf(v, i) \div 2, ColOf(v, i) \div 3 >>
    ELSE << RowOf(v, i) \div 3, ColOf(v, i) \div 3 >>

\* the 3-wide bands of the extra regions of Hyper: rows/columns 1..3 and 5..7
Band(x) == IF x \in 1..3 THEN 1 ELSE IF x \in 5..7 THEN 2 ELSE 0

InExtra(v, i) == v = "Hyper" /\ Band(RowOf(v, i)) # 0 /\ Band(ColOf(v, i)) # 0

SameRegion(v, i, j) ==
    /\ i # j
    /\ \/ RowOf(v, i) = RowOf(v, j)
       \/ ColOf(v, i) = ColOf(v, j)
       \/ BoxOf(v, i) = BoxOf(v, j)
       \/ /\ InExtra(v, i) /\ InExtra(v, j)
          /\ Band(RowOf(v, i)) = Band(RowOf(v, j))
          /\ Band(ColOf(v, i)) = Band(ColOf(v, j))

StandardPeers == [i \in 0..80 |-> {j \in 0..80 : SameRegion("Standard", i, j)}]

MiniPeers == [i \in 0..35 |-> {j \in 0..35 : SameRegion("Mini", i, j)}]

HyperPeers == [i \in 0..80 |-> {j \in 0..80 : SameRegion("Hyper", i, j)}]

Peers(v) ==
    CASE v = "Standard" -> StandardPeers [] v = "Mini" -> MiniPeers [] v = "Hyper" -> HyperPeers

\* no region holds the same present value twice
IsLegalGrid(v, c) ==
    \A i \in DOMAIN c : c[i] = None \/ \A j \in Peers(v)[i] : c[j] # c[i]

\* every cell holds a value of the range and no region holds a value twice
IsSolvedGrid(v, c) ==
    /\ \A i \in DOMAIN c : c[i] \in ValueRange(v)
    /\ \A i \in DOMAIN c : \A j \in Peers(v)[i] : c[j] # c[i]

Empties(c) == {i \in DOMAIN c : c[i] = None}

Least(S) == CHOOSE x \in S : \A y \in S : x <= y

\* the grids that fill the cells of E in grid c without a clash in any region
RECURSIVE Extend(_, _, _)
Extend(v, c, E) ==
    IF E = {} THEN {c}
    ELSE LET i == Least(E)
             free == {x \in ValueRange(v) : \A j \in Peers(v)[i] : c[j] # x}
         IN  UNION {Extend(v, [c EXCEPT ![i] = x], E \ {i}) : x \in free}

\* the valid completions of grid c
Completions(v, c) == {h \in Extend(v, c, Empties(c)) : IsSolvedGrid(v, h)}

\* a comes before b in the order of the values of the cells of E by position
LexLess(a, b, E) == \E p \in E : a[p] < b[p] /\ \A q \in E : q < p => a[q] = b[q]

\* solve() has got the result of backtrack(self, 0) and is about to return it
Returned == pc = "solving" /\ stack = <<>>

(* ---------------- properties ---------------- *)

\* C1: whenever solve() returns success, the grid at return is solved: every
\* cell holds a value of the variant's range and no row, column, box or
\* (Hyper) extra region holds the same value twice.
SuccessIsSolved == (Returned /\ ret = Ok) => IsSolvedGrid(variant, cells)

SuccessAfterSearch == Returned /\ ret = Ok /\ Cardinality(written) >= 2

\* C2: solve() is complete: on a legal input with at least one valid
\* completion it returns success, so it fails on a legal input only when no
\* valid completion exists.
SolveComplete ==
    (Returned /\ IsLegalGrid(variant, input))
        => (ret = Ok <=> Completions(variant, input) # {})

CompletionFound ==
    /\ Returned /\ ret = Ok /\ cells # input
    /\ IsLegalGrid(variant, input) /\ Completions(variant, input) # {}

\* C3: on a legal input with a completion, solve() ends with the completion
\* that is smallest in the order of the values of the originally empty cells
\* by increasing position; two calls on the same input end the same way.
SmallestCompletion ==
    /\ (Returned /\ IsLegalGrid(variant, input) /\ Completions(variant, input) # {})
          => /\ cells \in Completions(variant, input)
             /\ \A h \in Completions(variant, input) :
                    h = cells \/ LexLess(cells, h, Empties(input))
    /\ \A j, k \in 1..Len(results) :
          results[j].given = results[k].given
              => results[j].result = results[k].result /\ results[j].grid = results[k].grid

SmallestOfSeveral ==
    /\ Returned /\ ret = Ok /\ IsLegalGrid(variant, input)
    /\ Cardinality(Completions(variant, input)) >= 2

\* C4: a call of backtrack that returns a failure leaves the grid as it was
\* when the call started; after solve() returns a failure the grid equals the
\* grid solve() was called on.
FailureRestores ==
    [][ /\ (pc = "solving" /\ Len(stack') < Len(stack) /\ ret' # Ok)
            => cells' = Restore(Top.entry)
        /\ (Returned' /\ ret' # Ok) => cells' = input' ]_vars

FailedAfterWrites == Returned /\ ret = ErrUnsolvable /\ Cardinality(written) >= 2

\* backtrack(self, 0) is about to run
FirstCall == pc = "solving" /\ stack # <<>> /\ Top.pos = 0 /\ Top.at = "entry"

\* C5: on an illegal input, legal() is false and solve() returns "cannot
\* solve illegal position" without search: the first call of backtrack
\* returns that failure, writes no cell and makes no recursive call, also
\* when the grid is completely filled.
IllegalInputRejected ==
    [][ (FirstCall /\ ~IsLegalGrid(variant, cells))
            => /\ Legal(variant, cells) = FALSE
               /\ cells = input
               /\ stack' = <<>>
               /\ ret' = ErrIllegal
               /\ cells' = cells
               /\ written' = {} ]_vars

IllegalFilledRejected == Returned /\ ret = ErrIllegal /\ Filled(input)

\* C6: during a solve() call and at its return, every cell that held a value
\* in the input still holds it; only cells empty in the input are written.
GivensKept ==
    pc = "solving"
        => /\ \A i \in DOMAIN input : input[i] # None => cells[i] = input[i]
           /\ written \subseteq Empties(input)

GivensKeptWhileSearching ==
    /\ pc = "solving" /\ stack # <<>> /\ written # {}
    /\ \E i \in DOMAIN input : input[i] = None /\ cells[i] # None

\* C7: solve() on a solved grid returns success without writing a cell, the
\* grid is unchanged, and a second solve() ends as the first did.
SolvedIsFixed ==
    /\ pc = "solving"
          => \/ /\ written = {}
                /\ cells = input
                /\ stack = <<>> => ret = Ok
             \/ ~IsSolvedGrid(variant, input)
    /\ \A k \in 1..(Len(results) - 1) :
          (results[k + 1].given = results[k].grid /\ IsSolvedGrid(variant, results[k].given))
              => /\ results[k + 1].result = results[k].result
                 /\ results[k + 1].grid = results[k].grid

SolvedTwice ==
    /\ Len(results) = 2
    /\ IsSolvedGrid(variant, results[1].given)
    /\ results[2].given = results[1].grid

\* a group of cell positions is completely filled and holds no value twice
GroupComplete(c, idx) ==
    /\ \A a \in 1..Len(idx) : c[idx[a]] # None
    /\ \A a \in 1..Len(idx) : \A b \in (a + 1)..Len(idx) : c[idx[a]] # c[idx[b]]

\* a group of cell positions holds no present value twice
GroupDistinct(c, idx) ==
    \A a \in 1..Len(idx) : \A b \in (a + 1)..Len(idx) :
        c[idx[a]] = c[idx[b]] => c[idx[a]] = None

\* C8: solved(g) holds iff every group is completely filled and holds no
\* value twice, and this is the same as filled(g) and legal(g).
SolvedIffFilledAndLegal ==
    /\ Solved(variant, cells)
          <=> \A k \in 1..Len(GroupsIdx(variant)) : GroupComplete(cells, GroupsIdx(variant)[k])
    /\ Solved(variant, cells) <=> (Filled(cells) /\ Legal(variant, cells))

FilledNotSolved == sets = 1 /\ Filled(cells) /\ ~Solved(variant, cells)

\* C9: legal(g) holds iff no group of all_groups holds a value more than
\* once among its present cells; absent cells never clash, so the grid of
\* new() is legal.
LegalIffNoDuplicate ==
    /\ Legal(variant, cells)
          <=> \A k \in 1..Len(GroupsIdx(variant)) : GroupDistinct(cells, GroupsIdx(variant)[k])
    /\ Legal(variant, New(variant))

LegalWithAbsentCells ==
    /\ sets = 1 /\ Legal(variant, cells)
    /\ \E k \in 1..Len(GroupsIdx(variant)) :
          Cardinality({a \in 1..Len(GroupsIdx(variant)[k]) :
                          cells[GroupsIdx(variant)[k][a]] = None}) >= 2

\* the groups of all_groups that contain cell i, in the order of all_groups
GroupsContaining(v, i) == SelectSeq(GroupsIdx(v), LAMBDA idx : i \in Elems(idx))

GroupsOfExactIn(v) ==
    \A i \in 0..(NumCells(v) - 1) :
        /\ GroupsOfIdx(v, i) = GroupsContaining(v, i)
        /\ Len(GroupsOfIdx(v, i)) = IF InExtra(v, i) THEN 4 ELSE 3
        /\ GroupsOfIdx(v, i)[1] \in Elems(RowsIdx(v))
        /\ GroupsOfIdx(v, i)[2] \in Elems(ColumnsIdx(v))
        /\ GroupsOfIdx(v, i)[3] \in Elems(GridsIdx(v))

GroupsOfExactByVariant == [v \in Variants |-> GroupsOfExactIn(v)]

\* C10: whenever the search has asked for the groups of a cell, groups_of(i)
\* is for every cell i, in the order row, column, box, extra region, exactly
\* the groups of all_groups that contain cell i: 3 groups, and 4 for a Hyper
\* cell inside an extra region.
GroupsOfExact ==
    (stack # <<>> /\ Top.at = "loop") => GroupsOfExactByVariant[variant]

GroupsOfExtraCell ==
    /\ variant = "Hyper" /\ stack # <<>> /\ Top.at = "loop"
    /\ Len(GroupsOf(variant, cells, Top.pos)) = 4

\* the cells of the box at box-row br and box-column bc when the boxes of a
\* 6 by 6 grid are h rows high and w columns wide
MiniBoxCells(br, bc, h, w) ==
    {i \in 0..35 : (i \div 6) \div h = br /\ (i % 6) \div w = bc}

\* the boxes of the code split the 36 cells into 6 disjoint sets of 6 cells
MiniBoxesPartition ==
    /\ Len(MiniGrids) = 6
    /\ \A b \in 1..6 : Cardinality(Elems(MiniGrids[b])) = 6 /\ Len(MiniGrids[b]) = 6
    /\ \A a, b \in 1..6 : a # b => Elems(MiniGrids[a]) \cap Elems(MiniGrids[b]) = {}
    /\ UNION {Elems(MiniGrids[b]) : b \in 1..6} = 0..35

\* the boxes of the code are those of an arrangement of boxRows by boxCols
\* boxes, and groups_of(i) gives the box of that arrangement that holds i
MiniBoxesArranged(boxRows, boxCols) ==
    LET h == 6 \div boxRows
        w == 6 \div boxCols
    IN  /\ {Elems(MiniGrids[b]) : b \in 1..6}
              = {MiniBoxCells(br, bc, h, w) : br \in 0..(boxRows - 1), bc \in 0..(boxCols - 1)}
        /\ \A i \in 0..35 :
              Elems(MiniGroupsOf(i)[3]) = MiniBoxCells((i \div 6) \div h, (i % 6) \div w, h, w)

MiniArrangedTwoByThree == MiniBoxesArranged(2, 3)

MiniArrangedThreeByTwo == MiniBoxesArranged(3, 2)

\* the search on a Mini grid has asked for the groups of its cell
MiniAtLoop == variant = "Mini" /\ pc = "solving" /\ stack # <<>> /\ Top.at = "loop"

\* C11 as stated: the 6 boxes of Mini split the 36 cells, are arranged in
\* 2 box-rows by 3 box-columns, and groups_of(i) gives the box of that
\* arrangement that holds cell i.
MiniBoxesTwoByThree ==
    MiniAtLoop => MiniBoxesPartition /\ MiniArrangedTwoByThree

\* C11: the 6 boxes of Mini split the 36 cells into 6 disjoint boxes of 6
\* cells, arranged in 3 box-rows by 2 box-columns (each box 2 rows high and
\* 3 columns wide), and groups_of(i) gives the box of that arrangement that
\* holds cell i.
MiniBoxesThreeByTwo ==
    MiniAtLoop => MiniBoxesPartition /\ MiniArrangedThreeByTwo

\* the search is at a cell whose box is not the one a 2 by 3 arrangement
\* would give it, and that box excludes a value the cell's row does not hold
MiniBoxDecides ==
    /\ MiniAtLoop
    /\ Elems(GroupsOfIdx(variant, Top.pos)[3])
          # MiniBoxCells((Top.pos \div 6) \div 3, (Top.pos % 6) \div 2, 3, 2)
    /\ \E x \in Elems(GroupsOf(variant, cells, Top.pos)[3]) :
          x # None /\ x \notin Elems(GroupsOf(variant, cells, Top.pos)[1])

\* every present value of grid c lies in 1..N
InRange(v, c) == \A i \in DOMAIN c : c[i] = None \/ c[i] \in ValueRange(v)

\* C12: set(i, v) with a present v outside 1..N fails (panics) and leaves
\* every cell as it was; set(i, absent) and set(i, v) with v in 1..N change
\* cell i to that value and no other cell; so every present value of the grid
\* lies in 1..N, whatever was parsed, set and solved.
SetChecksRange ==
    [][ /\ InRange(variant, cells) /\ InRange(variant, cells')
        /\ sets' = sets + 1 =>
              IF setArgs'.num # None /\ setArgs'.num \notin ValueRange(variant)
              THEN pc' = "panicked" /\ cells' = cells
              ELSE pc' = "idle" /\ cells' = [cells EXCEPT ![setArgs'.i] = setArgs'.num] ]_vars

\* set() was called with the first value past the range, and with Some(0)
SetRefused ==
    /\ pc = "panicked" /\ setArgs # NoArgs /\ cells = input
    /\ setArgs.num \in {0, Width(variant) + 1}

\* C13: for a grid whose present values lie in 1..N, to_string() gives
\* exactly one char per cell (the digit of a present cell, a space for an
\* absent one), and from_str of that String succeeds and gives the same grid.
FormatParseRoundTrip ==
    (text.from = "format" /\ InRange(variant, input)) =>
        /\ Len(text.chars) = NumCells(variant)
        /\ \A i \in DOMAIN input :
              text.chars[i + 1] = IF input[i] = None THEN Space ELSE Zero + input[i]
        /\ \A i \in DOMAIN input :
              input[i] # None => text.chars[i + 1] \in (Zero + 1)..(Zero + 9)
        /\ parsed # NoParse => parsed.result = Ok /\ parsed.grid = input

\* a grid with present and absent cells went through to_string and from_str
RoundTripDone ==
    /\ text.from = "format" /\ parsed # NoParse
    /\ \E i, j \in DOMAIN input : input[i] = None /\ input[j] # None
    /\ sets >= 1

\* the chars of a text that stand for a cell: the digits 1..N and the space
SignificantChars(v, t) ==
    SelectSeq(t, LAMBDA ch : ch = Space \/ (ch - Zero) \in ValueRange(v))

\* C14: from_str ignores every char but the digits 1..N and the space and
\* maps the others in order to the cells (a digit to its value, a space to
\* absent); it gives a grid iff exactly cellCount such chars remain and the
\* error "invalid length" otherwise.
ParseFiltersAndCounts ==
    (text.from = "input") =>
        LET sig == SignificantChars(variant, text.chars)
        IN  /\ parsed.result = Ok <=> Len(sig) = NumCells(variant)
            /\ parsed.result # Ok => parsed.result = ErrLength /\ parsed.grid = <<>>
            /\ parsed.result = Ok =>
                  /\ DOMAIN parsed.grid = 0..(NumCells(variant) - 1)
                  /\ \A i \in DOMAIN parsed.grid :
                        parsed.grid[i] = IF sig[i + 1] = Space THEN None ELSE sig[i + 1] - Zero

\* from_str gave a grid for a text that holds chars it ignores
ParsedPastIgnored ==
    /\ text.from = "input" /\ parsed.result = Ok
    /\ Len(text.chars) > NumCells(variant)

\* from_str gave "invalid length" for a text of cellCount chars
RefusedForIgnoredChar ==
    /\ text.from = "input" /\ parsed.result = ErrLength
    /\ Len(text.chars) = NumCells(variant)

\* the groups of a 9x9 grid by cell index = row * 9 + column
NineRow(r) == [k \in 1..9 |-> r * 9 + (k - 1)]

NineColumn(c) == [k \in 1..9 |-> c + 9 * (k - 1)]

NineBox(b) ==
    [k \in 1..9 |-> (3 * (b \div 3) + ((k - 1) \div 3)) * 9 + 3 * (b % 3) + ((k - 1) % 3)]

\* the rows, columns and boxes of variant v are those, all_groups lists
\* them in that order, the extra regions of Hyper last, and the boxes split
\* the 81 cells
NineGeometry(v) ==
    /\ RowsIdx(v) = [r \in 1..9 |-> NineRow(r - 1)]
    /\ ColumnsIdx(v) = [c \in 1..9 |-> NineColumn(c - 1)]
    /\ SubSeq(GridsIdx(v), 1, 9) = [b \in 1..9 |-> NineBox(b - 1)]
    /\ Len(GroupsIdx(v)) = IF v = "Hyper" THEN 27 + 4 ELSE 27
    /\ SubSeq(GroupsIdx(v), 1, 9) = [r \in 1..9 |-> NineRow(r - 1)]
    /\ SubSeq(GroupsIdx(v), 10, 18) = [c \in 1..9 |-> NineColumn(c - 1)]
    /\ SubSeq(GroupsIdx(v), 19, 27) = [b \in 1..9 |-> NineBox(b - 1)]
    /\ \A e \in 1..(Len(GroupsIdx(v)) - 27) :
          Elems(GroupsIdx(v)[27 + e])
              = {i \in 0..80 : /\ Band(RowOf(v, i)) = ((e - 1) \div 2) + 1
                               /\ Band(ColOf(v, i)) = ((e - 1) % 2) + 1}
    /\ \A a, b \in 1..9 : a # b => Elems(GridsIdx(v)[a]) \cap Elems(GridsIdx(v)[b]) = {}
    /\ UNION {Elems(GridsIdx(v)[b]) : b \in 1..9} = 0..80

StandardGeometry == NineGeometry("Standard")

HyperGeometry == NineGeometry("Hyper")

\* C15: on the 9x9 grids, whenever legal() is about to read all_groups:
\* rows()[r] is the cells r*9 .. r*9+8, columns()[c] the cells c, c+9, ..,
\* c+72, box b the cells of rows 3*(b/3).. and columns 3*(b%3).. in row-major
\* order; all_groups is the rows, the columns, the boxes, then the four
\* extra regions of Hyper; the boxes split the 81 cells.
NineByNineGeometry ==
    /\ (FirstCall /\ variant = "Standard") => StandardGeometry
    /\ (FirstCall /\ variant = "Hyper") => HyperGeometry

\* solve() refused a 9x9 grid whose rows and columns hold no value twice: a
\* box or an extra region of all_groups does
RefusedForARegion ==
    /\ Returned /\ ret = ErrIllegal /\ variant # "Mini"
    /\ \A k \in 1..18 : GroupDistinct(cells, GroupsIdx(variant)[k])

\* the loop of backtrack is about to write its next candidate
AtCandidate == pc = "solving" /\ stack # <<>> /\ Top.at = "loop" /\ Top.possible # <<>>

\* C16 as stated: during the search a cell never changes directly from one
\* value to another; a failed candidate is cleared before the next is written.
RevertedBetweenCandidates ==
    [][ pc = "solving" =>
            \A i \in DOMAIN cells :
                (cells[i] # None /\ cells'[i] # None) => cells'[i] = cells[i] ]_vars

\* C16: when the call made for a candidate of cell p has failed, every cell
\* but p is as it was when the call for p started, and the next candidate is
\* written over the failed one: cell p is absent only before the first
\* candidate, and is cleared once, after the last candidate has failed.
OverwrittenBetweenCandidates ==
    [][ /\ AtCandidate =>
              LET entry == Restore(Top.entry)
                  first == Top.possible = Possible(variant, entry, Top.pos)
              IN  /\ entry[Top.pos] = None
                  /\ \A j \in DOMAIN cells : j # Top.pos => cells[j] = entry[j]
                  /\ cells[Top.pos] = None <=> first
                  /\ ~first => /\ cells[Top.pos] \in CellValues(variant)
                               /\ cells[Top.pos] < Head(Top.possible)
                  /\ cells' = [cells EXCEPT ![Top.pos] = Head(Top.possible)]
        /\ (pc = "solving" /\ ret' = ErrUnsolvable /\ Len(stack') < Len(stack))
              => cells' = [cells EXCEPT ![Top.pos] = None] ]_vars

\* the loop is about to write a candidate over the one that failed
SecondCandidate == AtCandidate /\ cells[Top.pos] # None

\* C17: every call of solve() returns: a call of backtrack made by a call
\* at position p is at position p + 1, no call is at a position past the
\* cell count, a call has at most N candidates and its loop drops one with
\* every value it tries.
SolveTerminates ==
    /\ (pc = "solving") ~> (pc = "idle")
    /\ [][ /\ (pc = "solving" /\ Len(stack') > Len(stack) /\ stack # <<>>)
                 => stack'[Len(stack')].pos = Top.pos + 1
           /\ (pc = "solving" /\ stack # <<>> /\ Len(stack') = Len(stack) /\ Top.at = "entry"
                  /\ stack'[Len(stack')].at = "entry")
                 => stack'[Len(stack')].pos = Top.pos + 1
           /\ \A k \in 1..Len(stack') :
                 /\ stack'[k].pos <= NumCells(variant)
                 /\ Len(stack'[k].possible) <= Cardinality(ValueRange(variant))
           /\ (pc = "solving" /\ Len(stack') > Len(stack) /\ stack # <<>>)
                 => Len(stack'[Len(stack)].possible) = Len(Top.possible) - 1 ]_vars

\* solve() has returned a failure after a search that wrote cells
SearchGaveUp ==
    /\ pc = "idle" /\ Len(results) >= 1
    /\ results[Len(results)].result = ErrUnsolvable
    /\ written # {}

\* C18: on a legal input the grid is legal at the entry of every call of
\* backtrack: no candidate of a cell is held by a cell of a region of that
\* cell, and the legality check of no call but the first fails (a failed
\* check shows as the result "cannot solve illegal position", which is only
\* ever there with the stack empty and no cell written).  So solve() returns
\* "cannot solve illegal position" iff the input is illegal, and "suduko
\* cannot be solved" iff the input is legal and has no completion.
LegalAtEveryCall ==
    pc = "solving" =>
        /\ (stack # <<>> /\ Top.at = "loop")
              => \/ \A x \in Elems(Top.possible) :
                        \A j \in Peers(variant)[Top.pos] : cells[j] # x
                 \/ ~IsLegalGrid(variant, input)
        /\ ret = ErrIllegal
              => stack = <<>> /\ written = {} /\ ~IsLegalGrid(variant, input)
        /\ Returned
              => /\ ret = ErrIllegal <=> ~IsLegalGrid(variant, input)
                 /\ ret = ErrUnsolvable
                       <=> (IsLegalGrid(variant, input) /\ Completions(variant, input) = {})

\* a call of backtrack three calls deep starts on a grid grown from a legal input
DeepCallOnLegalInput ==
    /\ pc = "solving" /\ Len(stack) >= 3 /\ Top.at = "entry"
    /\ IsLegalGrid(variant, input)

====
